---- MODULE Spec2Model ----
(***************************************************************************)
(* Gas station discovery and route utilities of moped-tracker              *)
(* (src/utils/getNearestStation.js), the map component's GasStationFetcher *)
(* that composes them, and the Home page that tracks the position.         *)
(*                                                                         *)
(* JavaScript values are encoded as follows.                               *)
(*   - an optional value (a property that may be missing, undefined or     *)
(*     null) is a sequence of length 0 or 1: None or Some(v);              *)
(*   - numbers are integers: coordinates are whole degrees, angles are     *)
(*     micro-radians, trigonometric values are fixed point with unit       *)
(*     Scale, distances are whole miles; NaN is the number NaN below;      *)
(*   - arrays are sequences, objects are records.                          *)
(***************************************************************************)
EXTENDS Integers, Sequences, FiniteSets, Bags, TLC

VARIABLES
    pc,            \* position of the one utility call in progress
    userLocation,  \* [lat, lng]: the coordinate the caller passes
    reply,         \* what the upstream service did for the call's request
    stations,      \* value returned by fetchNearbyGasStations
    route,         \* value returned by fetchRoute (None = null)
    nearest,       \* value returned by findNearestStation (None = null)
    raised,        \* TRUE iff the last call's promise rejected / threw
    stationsArg,   \* the array object handed to findNearestStation
    fnArg,         \* argument(s) of a direct call of a pure helper
    fnResult,      \* value that call returned
    calls,         \* overlapping calls of the fetch functions, one frame each
    \* Home (the page) and GasStationFetcher (inside the map):
    homeUserLocation,  \* Home's userLocation state, None = null
    gasStations,       \* Home's gasStations state
    nearestStation,    \* Home's nearestStation state, None = null
    currentAddress,    \* Home's currentAddress state
    isLoading,         \* Home's isLoading state
    hasInitialized,    \* GasStationFetcher's hasInitialized state
    mapMounted,        \* the Map component has loaded and rendered
    timer,             \* the pending setTimeout(updateNearest, 2000), with the
                       \* userLocation its closure holds
    tasks,             \* the running fetchStations / updateNearest calls (a bag)
    geocoding,         \* some reverseGeocode call awaits its reply
    crashed,           \* an error escaped fetchStations / updateNearest
    served,            \* since the last position callback, the result of a
                       \* station fetch for that position was written to
                       \* gasStations
    lastFetchFor,      \* position of the station fetch issued last
    lastRoute,         \* what the fetchRoute call settled last returned
    listFor,           \* position of the station fetch whose result gasStations
                       \* holds
    routeRequest,      \* the route request whose reply nearestStation holds:
                       \* its start, its end and what fetchRoute returned
    \* GasStationFetcher on a clock:
    fetcher,           \* its state, its timeouts and the seconds gone by
    \* The native shell (ContentView.swift):
    shell              \* LocationManager, Coordinator and the document in the
                       \* web view

vars == <<pc, userLocation, reply, stations, route, nearest, raised, stationsArg,
          fnArg, fnResult, calls,
          homeUserLocation, gasStations, nearestStation, currentAddress, isLoading,
          hasInitialized, mapMounted, timer, tasks, geocoding, crashed,
          served, lastFetchFor, lastRoute, listFor, routeRequest, fetcher, shell>>

\* The state of the page and of the components it renders.
pageVars == <<homeUserLocation, gasStations, nearestStation, currentAddress, isLoading,
              hasInitialized, mapMounted, timer, tasks, geocoding, crashed,
              served, lastFetchFor, lastRoute, listFor, routeRequest>>

\* What a single call of a utility function works on.
utilVars == <<pc, userLocation, reply, stations, route, nearest, raised, stationsArg,
              fnArg, fnResult>>

\* The clocked fetcher and the native shell.
sideVars == <<fetcher, shell>>

\* What belongs to the callers that run several calls at once.
outerVars == <<calls, pageVars, sideVars>>

\* What the fetch and selection calls leave alone.
helperVars == <<fnArg, fnResult>>

---------------------------------------------------------------------------
(* Optional values *)

None == <<>>
Some(v) == <<v>>
Val(o) == o[1]
Opt(S) == {None} \cup {Some(v) : v \in S}

---------------------------------------------------------------------------
(* Math: fixed-point versions of the Math functions calculateDistance uses *)

R == 3959
Scale == 10000
MicroRadPerDegree == 17453
NaN == -1

SinTable ==
    << 0, 175, 349, 523, 698, 872, 1045, 1219, 1392, 1564, 1736, 1908, 2079,
       2250, 2419, 2588, 2756, 2924, 3090, 3256, 3420, 3584, 3746, 3907,
       4067, 4226, 4384, 4540, 4695, 4848, 5000, 5150, 5299, 5446, 5592,
       5736, 5878, 6018, 6157, 6293, 6428, 6561, 6691, 6820, 6947, 7071,
       7193, 7314, 7431, 7547, 7660, 7771, 7880, 7986, 8090, 8192, 8290,
       8387, 8480, 8572, 8660, 8746, 8829, 8910, 8988, 9063, 9135, 9205,
       9272, 9336, 9397, 9455, 9511, 9563, 9613, 9659, 9703, 9744, 9781,
       9816, 9848, 9877, 9903, 9925, 9945, 9962, 9976, 9986, 9994, 9998,
       10000 >>

Abs(x) == IF x < 0 THEN -x ELSE x

\* Nearest whole degree of an angle of x >= 0 micro-radians.
NearestDegree(x) == (x + (MicroRadPerDegree \div 2)) \div MicroRadPerDegree

SinDegrees(d) ==
    LET m == d % 360 IN
    IF m <= 90 THEN SinTable[m + 1]
    ELSE IF m <= 180 THEN SinTable[180 - m + 1]
    ELSE IF m <= 270 THEN -SinTable[m - 180 + 1]
    ELSE -SinTable[360 - m + 1]

MathSin(x) ==
    IF x < 0 THEN -SinDegrees(NearestDegree(-x)) ELSE SinDegrees(NearestDegree(x))

MathCos(x) == MathSin(x + 90 * MicroRadPerDegree)

\* Product of two fixed-point values; like IEEE rounding, the magnitude of
\* the result does not depend on the signs.
Mul(x, y) ==
    IF (x < 0) = (y < 0) THEN (Abs(x) * Abs(y)) \div Scale
    ELSE -((Abs(x) * Abs(y)) \div Scale)

\* x / 2, with the same symmetry.
Half(x) == IF x < 0 THEN -((-x) \div 2) ELSE x \div 2

RECURSIVE SqrtSearch(_, _, _)
SqrtSearch(n, lo, hi) ==
    IF lo >= hi THEN lo
    ELSE LET mid == (lo + hi + 1) \div 2 IN
         IF mid * mid <= n THEN SqrtSearch(n, mid, hi)
         ELSE SqrtSearch(n, lo, mid - 1)

\* Math.sqrt: NaN for a negative argument.
MathSqrt(x) ==
    IF x = NaN \/ x < 0 THEN NaN ELSE SqrtSearch(x * Scale, 0, 2 * Scale)

RECURSIVE AtanSearch(_, _, _, _)
AtanSearch(y, x, lo, hi) ==
    IF lo >= hi THEN lo
    ELSE LET mid == (lo + hi + 1) \div 2 IN
         IF SinTable[mid + 1] * x <= SinTable[90 - mid + 1] * y
         THEN AtanSearch(y, x, mid, hi)
         ELSE AtanSearch(y, x, lo, mid - 1)

\* Math.atan2 for y, x >= 0, to the nearest degree, in micro-radians.
MathAtan2(y, x) ==
    IF y = NaN \/ x = NaN THEN NaN
    ELSE LET f == AtanSearch(y, x, 0, 90)
             err(d) == Abs(SinTable[d + 1] * x - SinTable[90 - d + 1] * y)
             best == IF f < 90 /\ err(f + 1) < err(f) THEN f + 1 ELSE f
         IN best * MicroRadPerDegree

toRadians(degrees) == degrees * MicroRadPerDegree

\* A haversine that takes both cosines at the first latitude.
calculateDistanceOneLatitude(lat1, lon1, lat2, lon2) ==
    IF None \in {lat1, lon1, lat2, lon2} THEN NaN
    ELSE
    LET dLat == toRadians(Val(lat2) - Val(lat1))
        dLon == toRadians(Val(lon2) - Val(lon1))
        a == Mul(MathSin(Half(dLat)), MathSin(Half(dLat)))
             + Mul(Mul(Mul(MathCos(toRadians(Val(lat1))),
                           MathCos(toRadians(Val(lat1)))),
                       MathSin(Half(dLon))),
                   MathSin(Half(dLon)))
        c == 2 * MathAtan2(MathSqrt(a), MathSqrt(Scale - a))
    IN IF c < 0 THEN NaN ELSE (R * (c \div 100)) \div 10000

\* calculateDistance(lat1, lon1, lat2, lon2): each argument is an optional
\* number (None = undefined); arithmetic on undefined gives NaN.
calculateDistance(lat1, lon1, lat2, lon2) ==
    IF None \in {lat1, lon1, lat2, lon2} THEN NaN
    ELSE
    LET dLat == toRadians(Val(lat2) - Val(lat1))
        dLon == toRadians(Val(lon2) - Val(lon1))
        a == Mul(MathSin(Half(dLat)), MathSin(Half(dLat)))
             + Mul(Mul(Mul(MathCos(toRadians(Val(lat1))),
                           MathCos(toRadians(Val(lat2)))),
                       MathSin(Half(dLon))),
                   MathSin(Half(dLon)))
        c == 2 * MathAtan2(MathSqrt(a), MathSqrt(Scale - a))
    IN IF c < 0 THEN NaN ELSE (R * (c \div 100)) \div 10000

---------------------------------------------------------------------------
(* JavaScript operators *)

\* a || b on optional numbers: a unless a is undefined, null, 0 or NaN.
OrNum(a, b) == IF a # None /\ Val(a) # 0 /\ Val(a) # NaN THEN a ELSE b

\* a || b on optional strings: a unless a is undefined, null or "".
OrStr(a, b) == IF a # None /\ Val(a) # "" THEN a ELSE b

\* Completion of a function body or of an awaited promise.
Return(v) == [type |-> "return", value |-> v]
Throw == [type |-> "throw", value |-> None]

RECURSIVE Join(_, _)
Join(parts, sep) ==
    IF Len(parts) = 0 THEN ""
    ELSE IF Len(parts) = 1 THEN parts[1]
    ELSE parts[1] \o sep \o Join(Tail(parts), sep)

---------------------------------------------------------------------------
(* fetchNearbyGasStations and formatAddress *)

\* An address builder that puts the street before the house number.
formatAddressStreetFirst(tags) ==
    IF tags = None THEN None
    ELSE
    LET t == Val(tags)
        p1 == IF OrStr(t.street, None) # None THEN <<Val(t.street)>> ELSE <<>>
        p2 == IF OrStr(t.housenumber, None) # None THEN p1 \o <<Val(t.housenumber)>> ELSE p1
        parts == IF OrStr(t.city, None) # None THEN p2 \o <<Val(t.city)>> ELSE p2
    IN IF Len(parts) > 0 THEN Some(Join(parts, ", ")) ELSE None

formatAddress(tags) ==
    IF tags = None THEN None
    ELSE
    LET t == Val(tags)
        p1 == IF OrStr(t.housenumber, None) # None THEN <<Val(t.housenumber)>> ELSE <<>>
        p2 == IF OrStr(t.street, None) # None THEN p1 \o <<Val(t.street)>> ELSE p1
        parts == IF OrStr(t.city, None) # None THEN p2 \o <<Val(t.city)>> ELSE p2
    IN IF Len(parts) > 0 THEN Some(Join(parts, ", ")) ELSE None

\* element.center?.lat and element.center?.lon
centerLat(element) == IF element.center = None THEN None ELSE Some(Val(element.center).lat)
centerLon(element) == IF element.center = None THEN None ELSE Some(Val(element.center).lon)

\* element.tags?.k
tag(element, k) == IF element.tags = None THEN None ELSE Val(element.tags)[k]

stationLat(element) == OrNum(centerLat(element), element.lat)
stationLon(element) == OrNum(centerLon(element), element.lon)


\* As stationName, without the fallback to the brand.
stationNameNoBrand(element) ==
    Val(OrStr(tag(element, "name"), Some("Gas Station")))

stationName(element) ==
    Val(OrStr(OrStr(tag(element, "name"), tag(element, "brand")), Some("Gas Station")))

\* As toStation, measuring every distance from the point (0, 0).
toStationFromOrigin(lat, lng, element) ==
    [ id       |-> element.id,
      lat      |-> stationLat(element),
      lng      |-> stationLon(element),
      name     |-> stationName(element),
      brand    |-> tag(element, "brand"),
      operator |-> tag(element, "operator"),
      address  |-> formatAddress(element.tags),
      distance |-> calculateDistance(Some(0), Some(0),
                                     stationLat(element), stationLon(element)),
      tags     |-> element.tags ]

\* The callback of data.elements.map: one Station per element.
toStation(lat, lng, element) ==
    [ id       |-> element.id,
      lat      |-> stationLat(element),
      lng      |-> stationLon(element),
      name     |-> stationName(element),
      brand    |-> tag(element, "brand"),
      operator |-> tag(element, "operator"),
      address  |-> formatAddress(element.tags),
      distance |-> calculateDistance(Some(lat), Some(lng),
                                     stationLat(element), stationLon(element)),
      tags     |-> element.tags ]


\* As mapElements, skipping the elements that carry no tags.
mapTaggedElements(lat, lng, elements) ==
    LET Tagged(element) == element.tags # None
        kept == SelectSeq(elements, Tagged)
    IN [i \in 1..Len(kept) |-> toStation(lat, lng, kept[i])]

\* data.elements.map(...): the callback applied to every element, in order.
mapElements(lat, lng, elements) ==
    [i \in 1..Len(elements) |-> toStation(lat, lng, elements[i])]

\* The comparator (a, b) => a.distance - b.distance as Array.prototype.sort
\* reads it: a NaN result counts as +0.
compareDistance(a, b) ==
    IF a.distance = NaN \/ b.distance = NaN THEN 0 ELSE a.distance - b.distance

\* A comparator is consistent on arr when "compares equal" is transitive
\* (with numbers, "compares less" always is).
ConsistentComparator(arr) ==
    \A i, j, k \in 1..Len(arr) :
        (compareDistance(arr[i], arr[j]) = 0 /\ compareDistance(arr[j], arr[k]) = 0)
            => compareDistance(arr[i], arr[k]) = 0

Permute(arr, p) == [i \in 1..Len(arr) |-> arr[p[i]]]

\* The order a stable sort gives: ascending by the comparator, ties in
\* their original order.
StableOrder(arr, p) ==
    \A i, j \in 1..Len(arr) :
        i < j => \/ compareDistance(arr[p[i]], arr[p[j]]) < 0
                 \/ (compareDistance(arr[p[i]], arr[p[j]]) = 0 /\ p[i] < p[j])

\* stations.sort((a, b) => a.distance - b.distance): the set of arrays the
\* call may produce.  With a consistent comparator the sort is stable and its
\* result unique; otherwise the order is implementation-defined.
sortByDistance(arr) ==
    IF ConsistentComparator(arr)
    THEN {Permute(arr, p) : p \in {q \in Permutations(1..Len(arr)) : StableOrder(arr, q)}}
    ELSE {Permute(arr, p) : p \in Permutations(1..Len(arr))}

\* The try block of fetchNearbyGasStations: the set of its completions,
\* given what the upstream service did (rep).
fetchNearbyGasStationsTry(lat, lng, rep) ==
    IF rep.kind = "rejected" THEN {Throw}            \* await fetch(...) rejects
    ELSE IF rep.kind = "notOk" THEN {Throw}          \* !response.ok
    ELSE IF rep.kind = "badJson" THEN {Throw}        \* await response.json() rejects
    ELSE IF rep.data = None THEN {Throw}             \* null.elements
    ELSE IF Val(rep.data).elements = None THEN {Throw}   \* undefined.map
    ELSE {Return(s) : s \in sortByDistance(mapElements(lat, lng, Val(Val(rep.data).elements)))}


\* As fetchNearbyGasStations, without the catch clause.
fetchNearbyGasStationsUncaught(lat, lng, rep) ==
    fetchNearbyGasStationsTry(lat, lng, rep)

\* try { ... } catch (error) { return [] }
fetchNearbyGasStations(lat, lng, rep) ==
    {IF c.type = "throw" THEN Return(<<>>) ELSE c : c \in fetchNearbyGasStationsTry(lat, lng, rep)}


\* As findNearestStation, searching for the least distance instead.
findNearestStationBySearch(stationList, location) ==
    IF stationList = None THEN None
    ELSE IF Len(Val(stationList)) = 0 THEN None
    ELSE LET arr == Val(stationList)
             i == CHOOSE m \in 1..Len(arr) :
                    \A j \in 1..Len(arr) :
                        \/ arr[m].distance < arr[j].distance
                        \/ (arr[m].distance = arr[j].distance /\ m <= j)
         IN Some(arr[i])

findNearestStation(stationList, location) ==
    IF stationList = None THEN None
    ELSE IF Len(Val(stationList)) = 0 THEN None
    ELSE Some(Val(stationList)[1])

---------------------------------------------------------------------------
(* fetchRoute *)


\* As swapCoord, keeping the received order.
keepCoord(coord) == <<coord[1], coord[2]>>

\* (coord) => [coord[1], coord[0]]: a received [lng, lat] becomes [lat, lng].
swapCoord(coord) == <<coord[2], coord[1]>>

\* route.geometry.coordinates.map(...)
swapCoordinates(coordinates) ==
    [i \in 1..Len(coordinates) |-> swapCoord(coordinates[i])]

\* route.distance / 1609.34, in hundredths of a mile.
metersToMiles(meters) == (meters * 10000) \div 160934

\* route.duration / 60, in hundredths of a minute.
secondsToMinutes(seconds) == (seconds * 100) \div 60


\* As routeFound, without the test of data.code.
routeFoundAnyCode(data) ==
    /\ data.routes # None
    /\ Len(Val(data.routes)) # 0

\* data.code !== 'Ok' || !data.routes || data.routes.length === 0, negated.
routeFound(data) ==
    /\ data.code = Some("Ok")
    /\ data.routes # None
    /\ Len(Val(data.routes)) # 0

\* route.legs[0]?.steps || []  (route.legs is known to be an array here)
firstLegSteps(legs) ==
    IF Len(legs) = 0 THEN <<>>
    ELSE IF legs[1].steps = None THEN <<>>
    ELSE Val(legs[1].steps)

\* The try block of fetchRoute: its completion, given what the routing
\* service did (rep).
fetchRouteTry(start, end, rep) ==
    IF rep.kind = "rejected" THEN Throw              \* await fetch(url) rejects
    ELSE IF rep.kind = "notOk" THEN Throw            \* !response.ok
    ELSE IF rep.kind = "badJson" THEN Throw          \* await response.json() rejects
    ELSE IF rep.data = None THEN Throw               \* null.code
    ELSE IF ~routeFound(Val(rep.data)) THEN Throw    \* 'No route found'
    ELSE LET r == Val(Val(rep.data).routes)[1] IN
         IF r.geometry = None THEN Throw             \* undefined.coordinates
         ELSE IF r.legs = None THEN Throw            \* undefined[0]
         ELSE Return(Some(
                [ coordinates |-> swapCoordinates(Val(r.geometry).coordinates),
                  distance    |-> metersToMiles(r.distance),
                  duration    |-> secondsToMinutes(r.duration),
                  steps       |-> firstLegSteps(Val(r.legs)) ]))

\* try { ... } catch (error) { return null }
fetchRoute(start, end, rep) ==
    LET c == fetchRouteTry(start, end, rep) IN
    IF c.type = "throw" THEN Return(None) ELSE c

---------------------------------------------------------------------------
(* formatDistance *)

\* A distance handed to formatDistance is a number of miles in units of
\* 1/MilesUnit mile (or NaN).
MilesUnit == 10000

\* Math.round(x) for x = n / unit, n >= 0: the nearest integer, halves up.
MathRound(n, unit) == (2 * n + unit) \div (2 * unit)

\* miles.toFixed(1): one digit after the decimal point.
toFixed1(miles) ==
    IF miles = NaN THEN "NaN"
    ELSE LET tenths == MathRound(10 * miles, MilesUnit)
         IN ToString(tenths \div 10) \o "." \o ToString(tenths % 10)

\* A formatter whose feet branch also takes exactly 0.1 mile.
formatDistanceInclusive(miles) ==
    IF miles # NaN /\ 10 * miles <= MilesUnit
    THEN ToString(MathRound(miles * 5280, MilesUnit)) \o " ft"
    ELSE toFixed1(miles) \o " mi"

formatDistance(miles) ==
    IF miles # NaN /\ 10 * miles < MilesUnit
    THEN ToString(MathRound(miles * 5280, MilesUnit)) \o " ft"
    ELSE toFixed1(miles) \o " mi"

---------------------------------------------------------------------------
(* Bounded inputs *)

MaxElements == 2

Lats == {0, 30}
Lons == {0, 30}
Ids == {1, 2}
Locations == {[lat |-> 0, lng |-> 0], [lat |-> 30, lng |-> 0]}

NoTags == [name |-> None, brand |-> None, operator |-> None,
           housenumber |-> None, street |-> None, city |-> None]

TagSets ==
    { NoTags,
      [NoTags EXCEPT !.name = Some("Kwik Trip")],
      [NoTags EXCEPT !.brand = Some("BP")],
      [NoTags EXCEPT !.name = Some("Kwik Trip"), !.brand = Some("BP"),
                     !.operator = Some("Kwik Trip Inc")],
      [NoTags EXCEPT !.name = Some(""), !.brand = Some("BP")],
      [NoTags EXCEPT !.name = Some(""), !.brand = Some("")],
      [NoTags EXCEPT !.housenumber = Some("5"), !.street = Some("Main St")],
      [NoTags EXCEPT !.name = Some("Shell"), !.street = Some("Main St"),
                     !.city = Some("Madison")] }

\* Elements of an Overpass "out center" reply: a node carries lat/lon, a way
\* carries center; an element may carry both.  Coordinates vary on elements
\* without tags, tags vary on one node.
Elements ==
    { e \in [ id : Ids, lat : Opt(Lats), lon : Opt(Lons),
              center : Opt([lat : Lats, lon : Lons]), tags : Opt(TagSets) ] :
        /\ (e.lat = None) = (e.lon = None)
        /\ e.lat # None \/ e.center # None
        /\ \/ e.tags = None /\ e.id = 1
           \/ e.tags # None /\ e.id = 2 /\ e.center = None
                /\ e.lat = Some(30) /\ e.lon = Some(0) }

SeqUpTo(S, n) == UNION {[1..k -> S] : k \in 0..n}

StationPayloads ==
    {None, Some([elements |-> None])}
        \cup {Some([elements |-> Some(es)]) : es \in SeqUpTo(Elements, MaxElements)}

StationReplies ==
    {[kind |-> k, data |-> None] : k \in {"rejected", "notOk", "badJson"}}
        \cup {[kind |-> "json", data |-> d] : d \in StationPayloads}

\* Replies whose elements have distinct ids, for following each element
\* through the sort: two nodes at the same distance from (0, 0), a nearer
\* and a farther node, and a way centred on (0, 0).
MaxSortLen == 4

SortElements ==
    { [id |-> 1, lat |-> Some(30), lon |-> Some(0), center |-> None, tags |-> None],
      [id |-> 2, lat |-> Some(0), lon |-> Some(30), center |-> None, tags |-> None],
      [id |-> 3, lat |-> Some(0), lon |-> Some(1), center |-> None, tags |-> None],
      [id |-> 4, lat |-> None, lon |-> None, center |-> Some([lat |-> 0, lon |-> 0]),
       tags |-> None],
      [id |-> 5, lat |-> Some(30), lon |-> Some(30), center |-> None, tags |-> None] }

SortReplies ==
    { [kind |-> "json", data |-> Some([elements |-> Some(es)])] :
        es \in {x \in SeqUpTo(SortElements, MaxSortLen) :
                    \A i, j \in 1..Len(x) : x[i].id = x[j].id => i = j} }

MaxPath == 2
MaxLegs == 2

\* [lng, lat] pairs as the routing service sends them.
Pairs == {<<-89, 43>>, <<30, 0>>, <<7, 7>>}

Legs == {[steps |-> st] : st \in {None, Some(<<>>), Some(<<"turn">>), Some(<<"depart", "arrive">>)}}

RouteObjects ==
    [ geometry : Opt([coordinates : SeqUpTo(Pairs, MaxPath)]),
      distance : {16093},
      duration : {90},
      legs     : Opt(SeqUpTo(Legs, MaxLegs)) ]

\* A second alternative, which fetchRoute never looks at.
AlternativeRoute ==
    [ geometry |-> Some([coordinates |-> <<<<1, 2>>>>]), distance |-> 3218,
      duration |-> 600, legs |-> Some(<<[steps |-> Some(<<"alternative">>)]>>) ]

RoutePayloads ==
    {None}
        \cup [code : {Some("Ok"), Some("NoRoute"), Some("ok"), None}, routes : {None, Some(<<>>)}]
        \cup {[code |-> c, routes |-> Some(rs)] :
                c \in {Some("Ok"), Some("NoRoute")},
                rs \in {<<r>> : r \in RouteObjects} \cup {<<r, AlternativeRoute>> : r \in RouteObjects}}

RouteReplies ==
    {[kind |-> k, data |-> None] : k \in {"rejected", "notOk", "badJson"}}
        \cup {[kind |-> "json", data |-> IF d = None THEN None ELSE Some(d)] : d \in RoutePayloads}

\* Station arrays handed directly to findNearestStation, in any order.
StationArrays ==
    SeqUpTo({toStation(0, 0, e) : e \in {x \in Elements : x.tags = None}}, MaxElements)

\* Tag objects handed directly to formatAddress: every address key is
\* missing, empty or filled.
AddressTagSets ==
    { [NoTags EXCEPT !.housenumber = h, !.street = st, !.city = c] :
        h \in {None, Some(""), Some("5"), Some("12")},
        st \in {None, Some(""), Some("Main St")},
        c \in {None, Some(""), Some("Madison")} }

\* Distances handed directly to formatDistance, around the 0.1 mile
\* threshold and the rounding points of both branches.
MilesValues ==
    { 0, 1, 2, 499, 500, 501, 947, 998, 999, 1000, 1001, 1499, 1500, 1501,
      9499, 9500, 10000, 24999, 25000, 99500, 123456 }

\* Whole-degree points handed directly to calculateDistance.
Points ==
    { <<lat, lon>> : lat \in {-82, -45, 0, 37, 82}, lon \in {-179, -90, 0, 1, 180} }

\* Overlapping calls: how many, what they are called with and what the
\* services answer.
MaxCalls == 2

CallStationReplies ==
    { [kind |-> "rejected", data |-> None],
      [kind |-> "badJson", data |-> None],
      [kind |-> "json", data |-> Some([elements |-> Some(<<>>)])],
      [kind |-> "json", data |-> Some([elements |-> Some(
          << [id |-> 1, lat |-> Some(30), lon |-> Some(0), center |-> None, tags |-> None],
             [id |-> 2, lat |-> Some(0), lon |-> Some(30), center |-> None,
              tags |-> None] >>)])] }

CallRouteReplies ==
    { [kind |-> "rejected", data |-> None],
      [kind |-> "json", data |-> Some([code |-> Some("Ok"), routes |-> Some(
          << [ geometry |-> Some([coordinates |-> <<<<30, 0>>>>]), distance |-> 16093,
               duration |-> 90, legs |-> Some(<<[steps |-> Some(<<"turn">>)]>>) ] >>)])] }

CallReplies(fn) == IF fn = "fetchNearbyGasStations" THEN CallStationReplies ELSE CallRouteReplies

\* The destination of the route calls.
CallEnd == [lat |-> 30, lng |-> 0]

\* The page: coordinates are in units of 1/DegreeUnit degree.
DegreeUnit == 10000

\* setUserLocation({ lat: 43.0731, lng: -89.4012 })
DefaultLocation == [lat |-> 430731, lng |-> -894012]

\* Positions the geolocation watch reports, two degrees apart: far enough for
\* the distance of a station to differ between them.
Positions == {[lat |-> 430000, lng |-> -890000], [lat |-> 450000, lng |-> -890000]}

MaxTasks == 2

\* What the services answer to the page's requests.
PageStationReplies ==
    { [kind |-> "rejected", data |-> None],
      [kind |-> "json", data |-> Some([elements |-> Some(<<>>)])],
      [kind |-> "json", data |-> Some([elements |-> Some(
          << [id |-> 1, lat |-> Some(43), lon |-> Some(-89), center |-> None,
              tags |-> None] >>)])] }

PageRouteReplies == CallRouteReplies

\* Outcomes of the reverse geocoding request: an address with a road, a
\* reply without address, a failure.
GeocodeReplies == {"road", "noAddress", "failed"}

---------------------------------------------------------------------------
(* Calls *)

\* fetchNearbyGasStations(userLocation.lat, userLocation.lng, 8000) is
\* called and suspends on its request.
CallFetchNearbyGasStations ==
    /\ pc = "idle"
    /\ \E loc \in Locations : userLocation' = loc
    /\ pc' = "stationsPending"
    /\ UNCHANGED <<reply, stations, route, nearest, raised, stationsArg>>
    /\ UNCHANGED helperVars
    /\ UNCHANGED outerVars

\* The upstream service settles the request and the call runs to its end.
SettleStations(replies) ==
    /\ pc = "stationsPending"
    /\ \E rep \in replies :
         \E c \in fetchNearbyGasStations(userLocation.lat, userLocation.lng, rep) :
            /\ reply' = Some(rep)
            /\ raised' = (c.type = "throw")
            /\ stations' = (IF c.type = "throw" THEN <<>> ELSE c.value)
    /\ pc' = "stationsDone"
    /\ UNCHANGED <<userLocation, route, nearest, stationsArg>>
    /\ UNCHANGED helperVars
    /\ UNCHANGED outerVars

StationsSettle == SettleStations(StationReplies)

\* The same, for a reply whose elements have distinct ids.
SortSettle == SettleStations(SortReplies)

\* GasStationFetcher: if (stations.length > 0) nearest = findNearestStation(...)
SelectNearest ==
    /\ pc = "stationsDone"
    /\ ~raised
    /\ Len(stations) > 0
    /\ nearest' = findNearestStation(Some(stations), userLocation)
    /\ stationsArg' = Some(stations)
    /\ pc' = "nearestSelected"
    /\ UNCHANGED <<userLocation, reply, stations, route, raised>>
    /\ UNCHANGED helperVars
    /\ UNCHANGED outerVars

\* fetchRoute(start, end) is called and suspends on its request.
CallFetchRoute ==
    /\ pc = "idle"
    /\ \E loc \in Locations : userLocation' = loc
    /\ pc' = "routePending"
    /\ UNCHANGED <<reply, stations, route, nearest, raised, stationsArg>>
    /\ UNCHANGED helperVars
    /\ UNCHANGED outerVars

\* The routing service settles the request and the call runs to its end.
RouteSettle ==
    /\ pc = "routePending"
    /\ \E rep \in RouteReplies, end \in Locations :
         LET c == fetchRoute(userLocation, end, rep) IN
            /\ reply' = Some(rep)
            /\ raised' = (c.type = "throw")
            /\ route' = (IF c.type = "throw" THEN None ELSE c.value)
    /\ pc' = "routeDone"
    /\ UNCHANGED <<userLocation, stations, nearest, stationsArg>>
    /\ UNCHANGED helperVars
    /\ UNCHANGED outerVars

\* A caller holds an array of stations (or nothing) and a location.
PrepareFindNearest ==
    /\ pc = "idle"
    /\ \E arr \in Opt(StationArrays) : stationsArg' = arr
    /\ \E loc \in Locations : userLocation' = loc
    /\ pc' = "findReady"
    /\ UNCHANGED <<reply, stations, route, nearest, raised>>
    /\ UNCHANGED helperVars
    /\ UNCHANGED outerVars

\* findNearestStation(stations, userLocation) runs; it assigns to nothing.
CallFindNearestStation ==
    /\ pc = "findReady"
    /\ nearest' = findNearestStation(stationsArg, userLocation)
    /\ pc' = "findDone"
    /\ UNCHANGED <<userLocation, reply, stations, route, raised, stationsArg>>
    /\ UNCHANGED helperVars
    /\ UNCHANGED outerVars

\* formatAddress(tags) is called on its own.
CallFormatAddress ==
    /\ pc = "idle"
    /\ \E tags \in Opt(AddressTagSets) :
         /\ fnArg' = Some(tags)
         /\ fnResult' = formatAddress(tags)
    /\ pc' = "addressDone"
    /\ UNCHANGED <<userLocation, reply, stations, route, nearest, raised, stationsArg>>
    /\ UNCHANGED outerVars

\* formatDistance(miles) is called on its own.
CallFormatDistance ==
    /\ pc = "idle"
    /\ \E miles \in MilesValues :
         /\ fnArg' = Some(miles)
         /\ fnResult' = Some(formatDistance(miles))
    /\ pc' = "distanceTextDone"
    /\ UNCHANGED <<userLocation, reply, stations, route, nearest, raised, stationsArg>>
    /\ UNCHANGED outerVars

\* calculateDistance is called on its own for a pair of points, once in
\* each direction.
CallCalculateDistance ==
    /\ pc = "idle"
    /\ \E a \in Points, b \in Points :
         /\ fnArg' = Some(<<a, b>>)
         /\ fnResult' = Some(<<calculateDistance(Some(a[1]), Some(a[2]), Some(b[1]), Some(b[2])),
                                calculateDistance(Some(b[1]), Some(b[2]), Some(a[1]), Some(a[2]))>>)
    /\ pc' = "distanceDone"
    /\ UNCHANGED <<userLocation, reply, stations, route, nearest, raised, stationsArg>>
    /\ UNCHANGED outerVars

---------------------------------------------------------------------------
(* Overlapping calls of fetchNearbyGasStations and fetchRoute.  Each call has
   a frame of its own: its parameters, the response it awaits and its
   result.  The functions have no variable outside their frames. *)

NoCall ==
    [ fn |-> "none", stage |-> "idle", args |-> None, frame |-> None,
      response |-> None, result |-> None, overlapped |-> FALSE ]

InFlight(i) == calls[i].stage \in {"fetching", "parsing"}

\* As frameOf, for functions that keep their parameters in one variable of
\* the module, written by call 1.
frameOfShared(cs, i) == IF cs[1].frame # None THEN Val(cs[1].frame) ELSE Val(cs[i].frame)

\* The parameters as the body of call i reads them.
frameOf(cs, i) == Val(cs[i].frame)

\* What the body of call i returns once its response is complete.
callResult(cs, i) ==
    LET f == frameOf(cs, i)
        rep == Val(cs[i].response)
    IN IF cs[i].fn = "fetchNearbyGasStations"
       THEN {Some(c.value) : c \in fetchNearbyGasStations(f.lat, f.lng, rep)}
       ELSE {fetchRoute(f, CallEnd, rep).value}

\* A caller calls fetchNearbyGasStations(loc.lat, loc.lng) or
\* fetchRoute(loc, end); the call runs up to await fetch(...).
CallStart(i) ==
    /\ calls[i].stage = "idle"
    /\ \E fn \in {"fetchNearbyGasStations", "fetchRoute"}, loc \in Locations :
         LET busy == \E j \in 1..MaxCalls : InFlight(j) IN
         calls' = [j \in 1..MaxCalls |->
                    IF j = i
                    THEN [NoCall EXCEPT !.fn = fn, !.stage = "fetching",
                                        !.args = Some(loc), !.frame = Some(loc),
                                        !.overlapped = busy]
                    ELSE IF InFlight(j) THEN [calls[j] EXCEPT !.overlapped = TRUE]
                    ELSE calls[j]]
    /\ UNCHANGED utilVars
    /\ UNCHANGED <<pageVars, sideVars>>

\* await fetch(...) settles.  A rejection is caught and ends the call; a
\* response suspends the call again on response.json().
FetchResolves(i) ==
    /\ calls[i].stage = "fetching"
    /\ \E rep \in CallReplies(calls[i].fn) :
         LET held == [calls EXCEPT ![i].response = Some(rep)] IN
         IF rep.kind = "rejected"
         THEN \E v \in callResult(held, i) :
                 calls' = [held EXCEPT ![i].stage = "done", ![i].result = v]
         ELSE calls' = [held EXCEPT ![i].stage = "parsing"]
    /\ UNCHANGED utilVars
    /\ UNCHANGED <<pageVars, sideVars>>

\* await response.json() settles and the call runs to its return.
JsonResolves(i) ==
    /\ calls[i].stage = "parsing"
    /\ \E v \in callResult(calls, i) :
         calls' = [calls EXCEPT ![i].stage = "done", ![i].result = v]
    /\ UNCHANGED utilVars
    /\ UNCHANGED <<pageVars, sideVars>>

---------------------------------------------------------------------------
(* Home and GasStationFetcher.  A state update re-renders; the effects whose
   dependencies changed run as part of the step that changed them. *)

\* A coordinate in whole degrees, the resolution of the distance model.
WholeDegrees(x) ==
    IF x < 0 THEN -((2 * (-x) + DegreeUnit) \div (2 * DegreeUnit))
    ELSE (2 * x + DegreeUnit) \div (2 * DegreeUnit)

\* The running calls of fetchStations and updateNearest form a bag: a call
\* is its kind, the await it is suspended on, the userLocation of its closure
\* and the nearest station it found.
Running == BagToSet(tasks)

CanStart == BagCardinality(tasks) < MaxTasks

\* fetchStations() / updateNearest() is called: it runs up to its first
\* await, the station request for the userLocation of its closure.
startTask(ts, kind, loc) ==
    ts (+) SetToBag({[kind |-> kind, stage |-> "stations", loc |-> loc, found |-> None]})

\* Task t goes on as task u.
stepTask(ts, t, u) == (ts (-) SetToBag({t})) (+) SetToBag({u})

\* Task t returns.
endTask(ts, t) == ts (-) SetToBag({t})

\* As publishNearest, reading route.coordinates without the ?. guard.
publishNearestUnguarded(found, r) ==
    IF r = None THEN Throw
    ELSE Return([ station |-> found, route |-> Some(Val(r).coordinates),
                  duration |-> Some(Val(r).duration) ])

\* A publication that takes the station from the list on the page instead of
\* the one the route was requested for.
publishNearestListed(found, r) ==
    Return([station  |-> IF gasStations # <<>> THEN gasStations[1] ELSE found,
            route    |-> IF r = None THEN None ELSE Some(Val(r).coordinates),
            duration |-> IF r = None THEN None ELSE Some(Val(r).duration)])

\* { ...nearest, route: route?.coordinates, duration: route?.duration }
publishNearest(found, r) ==
    Return([ station |-> found,
             route |-> IF r = None THEN None ELSE Some(Val(r).coordinates),
             duration |-> IF r = None THEN None ELSE Some(Val(r).duration) ])

\* The effects of GasStationFetcher after a render in which userLocation or
\* hasInitialized changed (or after its first render): the first starts
\* fetchStations while not initialized, the second clears its timer and,
\* once initialized, sets a new one.
EffectsEnabled(init) == init \/ CanStart

\* As RunEffects, with a second effect that sets no timer.
RunEffectsNoTimer(loc, init, ts) ==
    IF init
    THEN /\ tasks' = ts
         /\ UNCHANGED <<timer, lastFetchFor>>
    ELSE /\ timer' = None
         /\ tasks' = startTask(ts, "initial", loc)
         /\ lastFetchFor' = Some(loc)

RunEffects(loc, init, ts) ==
    IF init
    THEN /\ timer' = Some(loc)
         /\ tasks' = ts
         /\ UNCHANGED lastFetchFor
    ELSE /\ timer' = None
         /\ tasks' = startTask(ts, "initial", loc)
         /\ lastFetchFor' = Some(loc)

\* The success callback of watchPosition.
GeoSuccess ==
    /\ mapMounted => EffectsEnabled(hasInitialized)
    /\ \E pos \in Positions :
         /\ homeUserLocation' = Some(pos)
         /\ IF mapMounted THEN RunEffects(pos, hasInitialized, tasks)
            ELSE UNCHANGED <<timer, tasks, lastFetchFor>>
    /\ isLoading' = FALSE
    /\ geocoding' = TRUE
    /\ served' = FALSE
    /\ UNCHANGED <<gasStations, nearestStation, currentAddress, hasInitialized, mapMounted,
                   crashed, lastRoute,
                   listFor, routeRequest>>
    /\ UNCHANGED <<utilVars, calls, sideVars>>

\* A fallback to the point (0, 0).
errorFallbackNullIsland == [location |-> [lat |-> 0, lng |-> 0], address |-> "Madison, WI (Default)"]

\* What the error callback falls back to.
errorFallback == [location |-> DefaultLocation, address |-> "Madison, WI (Default)"]

\* The error callback of watchPosition.
GeoError ==
    /\ mapMounted => EffectsEnabled(hasInitialized)
    /\ homeUserLocation' = Some(errorFallback.location)
    /\ currentAddress' = errorFallback.address
    /\ isLoading' = FALSE
    /\ IF mapMounted THEN RunEffects(errorFallback.location, hasInitialized, tasks)
       ELSE UNCHANGED <<timer, tasks, lastFetchFor>>
    /\ served' = FALSE
    /\ UNCHANGED <<gasStations, nearestStation, hasInitialized, mapMounted, geocoding,
                   crashed, lastRoute,
                   listFor, routeRequest>>
    /\ UNCHANGED <<utilVars, calls, sideVars>>

\* A reverseGeocode call settles; others may still be waiting.
GeocodeReply ==
    /\ geocoding
    /\ geocoding' \in BOOLEAN
    /\ \E outcome \in GeocodeReplies :
         currentAddress' = CASE outcome = "road" -> "Main St"
                             [] outcome = "noAddress" -> currentAddress
                             [] OTHER -> "Unknown location"
    /\ UNCHANGED <<homeUserLocation, gasStations, nearestStation, isLoading,
                   hasInitialized, mapMounted, timer, tasks, crashed,
                   served, lastFetchFor, lastRoute,
                   listFor, routeRequest>>
    /\ UNCHANGED <<utilVars, calls, sideVars>>

\* A page that renders <Map> at once, whatever isLoading and userLocation.
MapMountsUnconditionally ==
    /\ ~mapMounted
    /\ mapMounted' = TRUE
    /\ IF homeUserLocation # None
       THEN RunEffects(Val(homeUserLocation), hasInitialized, tasks)
       ELSE UNCHANGED <<timer, tasks, lastFetchFor>>
    /\ UNCHANGED <<homeUserLocation, gasStations, nearestStation, currentAddress, isLoading,
                   hasInitialized, geocoding, crashed, served, lastRoute,
                   listFor, routeRequest>>
    /\ UNCHANGED <<utilVars, calls, sideVars>>

\* Home renders <Map> once !isLoading && userLocation; the component loads
\* and GasStationFetcher renders for the first time.
MapMounts ==
    /\ ~mapMounted
    /\ ~isLoading
    /\ homeUserLocation # None
    /\ mapMounted' = TRUE
    /\ RunEffects(Val(homeUserLocation), hasInitialized, tasks)
    /\ UNCHANGED <<homeUserLocation, gasStations, nearestStation, currentAddress, isLoading,
                   hasInitialized, geocoding, crashed, served, lastRoute,
                   listFor, routeRequest>>
    /\ UNCHANGED <<utilVars, calls, sideVars>>

\* The 2000 ms timer of the second effect expires: updateNearest() starts.
TimerFires ==
    /\ timer # None
    /\ CanStart
    /\ tasks' = startTask(tasks, "update", Val(timer))
    /\ lastFetchFor' = timer
    /\ timer' = None
    /\ UNCHANGED <<homeUserLocation, gasStations, nearestStation, currentAddress, isLoading,
                   hasInitialized, mapMounted, geocoding, crashed, served, lastRoute,
                   listFor, routeRequest>>
    /\ UNCHANGED <<utilVars, calls, sideVars>>

\* The end of fetchStations (setHasInitialized(true), which re-renders when
\* it changes the state) and of updateNearest (nothing).
Finish(t) ==
    IF t.kind = "initial" /\ ~hasInitialized
    THEN /\ hasInitialized' = TRUE
         /\ timer' = homeUserLocation
         /\ tasks' = endTask(tasks, t)
    ELSE /\ tasks' = endTask(tasks, t)
         /\ UNCHANGED <<hasInitialized, timer>>

\* await fetchNearbyGasStations(...) settles in task t: setGasStations, then
\* either the route request for the nearest station or the end of the task.
SettleStationsOf(t) ==
    /\ t.stage = "stations"
    /\ \E rep \in PageStationReplies :
         \E c \in fetchNearbyGasStations(WholeDegrees(t.loc.lat), WholeDegrees(t.loc.lng), rep) :
            LET found == findNearestStation(Some(c.value), t.loc) IN
            /\ gasStations' = c.value
            /\ served' = (served \/ Some(t.loc) = homeUserLocation)
            /\ IF Len(c.value) > 0 /\ found # None
               THEN /\ tasks' = stepTask(tasks, t, [t EXCEPT !.stage = "route", !.found = found])
                    /\ UNCHANGED <<hasInitialized, timer>>
               ELSE Finish(t)
    /\ UNCHANGED <<homeUserLocation, nearestStation, currentAddress, isLoading, mapMounted,
                   geocoding, crashed, lastFetchFor, lastRoute, routeRequest>>
    /\ UNCHANGED <<utilVars, calls, sideVars>>

StationsReply(t) == SettleStationsOf(t) /\ UNCHANGED listFor

\* The same step, with the position of the fetch written down next to the list.
StationsReplyRecorded(t) == SettleStationsOf(t) /\ listFor' = Some(t.loc)

\* await fetchRoute(userLocation, nearest) settles in task t with reply rep:
\* setNearestStation, then the end of the task.
SettleRouteOf(t, rep) ==
    /\ t.stage = "route"
    /\ LET r == fetchRoute(t.loc, Val(t.found), rep).value
           c == publishNearest(Val(t.found), r)
       IN /\ lastRoute' = Some(r)
          /\ IF c.type = "throw"
             THEN /\ crashed' = TRUE
                  /\ tasks' = endTask(tasks, t)
                  /\ UNCHANGED <<nearestStation, hasInitialized, timer>>
             ELSE /\ nearestStation' = Some(c.value)
                  /\ Finish(t)
                  /\ UNCHANGED crashed
    /\ UNCHANGED <<homeUserLocation, gasStations, currentAddress, isLoading, mapMounted,
                   geocoding, served, lastFetchFor, listFor>>
    /\ UNCHANGED <<utilVars, calls, sideVars>>

RouteReply(t) ==
    \E rep \in PageRouteReplies : SettleRouteOf(t, rep) /\ UNCHANGED routeRequest

\* The same step, with the request written down next to the reply that
\* setNearestStation received.
RouteReplyRecorded(t) ==
    \E rep \in PageRouteReplies :
       /\ SettleRouteOf(t, rep)
       /\ LET r == fetchRoute(t.loc, Val(t.found), rep).value IN
          routeRequest' = IF publishNearest(Val(t.found), r).type = "throw"
                          THEN routeRequest
                          ELSE Some([start |-> t.loc, end |-> Val(t.found), reply |-> r])

---------------------------------------------------------------------------
(* GasStationFetcher on a clock: the two effects, their timeouts, unmount *)

\* setTimeout(updateNearest, 2000), in seconds.
Debounce == 2

\* The clock stops counting the seconds since the last change of userLocation
\* at MaxIdle; at most MaxFetches calls of each kind run at once and at most
\* MaxTimeouts timeouts are pending.
MaxIdle == 3
MaxFetches == 2
MaxTimeouts == 2

\* Element i removed from a sequence.
RemoveAt(seq, i) == [k \in 1..(Len(seq) - 1) |-> IF k < i THEN seq[k] ELSE seq[k + 1]]

\* A clearTimeout that cancels nothing.
clearTimeoutNothing(timeouts, id) == timeouts

\* clearTimeout(timeoutId): the pending timeout with that id is dropped; None
\* stands for an effect run that returned no cleanup.
clearTimeout(timeouts, id) == IF id = None THEN timeouts ELSE RemoveAt(timeouts, Val(id))

\* The two effects of GasStationFetcher run again after userLocation or
\* hasInitialized changed, hasInitialized being init by then: the cleanup of
\* the previous run of the second effect, then the first effect (fetchStations
\* while not initialized), then the second (a new timeout once initialized).
runFetcherEffects(f, init) ==
    LET cleared == clearTimeout(f.timeouts, f.own) IN
    IF init
    THEN [f EXCEPT !.hasInitialized = init,
                   !.timeouts = Append(cleared, Debounce),
                   !.own = Some(Len(cleared) + 1)]
    ELSE [f EXCEPT !.hasInitialized = init,
                   !.timeouts = cleared,
                   !.own = None,
                   !.initial = f.initial + 1]

\* The effects can run within the bounds.
FetcherEffectsEnabled(f, init) ==
    IF init THEN Len(clearTimeout(f.timeouts, f.own)) < MaxTimeouts
    ELSE f.initial < MaxFetches

\* <Map> renders GasStationFetcher with a userLocation: both effects run.
FetcherMounts ==
    /\ fetcher.mounted = "no"
    /\ fetcher' = runFetcherEffects([fetcher EXCEPT !.mounted = "yes"], FALSE)
    /\ UNCHANGED <<utilVars, calls, pageVars, shell>>

\* Home passes a new userLocation object.
LocationChanges ==
    /\ fetcher.mounted # "gone"
    /\ IF fetcher.mounted = "yes"
       THEN /\ FetcherEffectsEnabled(fetcher, fetcher.hasInitialized)
            /\ fetcher' = runFetcherEffects([fetcher EXCEPT !.idle = 0], fetcher.hasInitialized)
       ELSE fetcher' = [fetcher EXCEPT !.idle = 0]
    /\ UNCHANGED <<utilVars, calls, pageVars, shell>>

\* A fetchStations call reaches setHasInitialized(true); on an unmounted
\* component the setter does nothing.
InitialDone ==
    /\ fetcher.initial > 0
    /\ LET f == [fetcher EXCEPT !.initial = fetcher.initial - 1] IN
       IF fetcher.mounted = "yes" /\ ~fetcher.hasInitialized
       THEN /\ FetcherEffectsEnabled(f, TRUE)
            /\ fetcher' = runFetcherEffects(f, TRUE)
       ELSE fetcher' = f
    /\ UNCHANGED <<utilVars, calls, pageVars, shell>>

\* One second goes by.
Tick ==
    /\ fetcher' = [fetcher EXCEPT
           !.idle = IF fetcher.idle < MaxIdle THEN fetcher.idle + 1 ELSE MaxIdle,
           !.timeouts = [k \in DOMAIN fetcher.timeouts |->
                            IF fetcher.timeouts[k] > 0 THEN fetcher.timeouts[k] - 1 ELSE 0]]
    /\ UNCHANGED <<utilVars, calls, pageVars, shell>>

\* A timeout that is due calls updateNearest.
TimeoutFires ==
    /\ fetcher.updates < MaxFetches
    /\ \E k \in DOMAIN fetcher.timeouts :
         /\ fetcher.timeouts[k] = 0
         /\ fetcher' = [fetcher EXCEPT
                !.timeouts = RemoveAt(fetcher.timeouts, k),
                !.own = IF fetcher.own = None \/ fetcher.own = Some(k) THEN None
                        ELSE IF Val(fetcher.own) > k THEN Some(Val(fetcher.own) - 1)
                        ELSE fetcher.own,
                !.updates = fetcher.updates + 1,
                !.started = Some(fetcher.idle)]
    /\ UNCHANGED <<utilVars, calls, pageVars, shell>>

\* An updateNearest call comes to its end.
UpdateDone ==
    /\ fetcher.updates > 0
    /\ fetcher' = [fetcher EXCEPT !.updates = fetcher.updates - 1]
    /\ UNCHANGED <<utilVars, calls, pageVars, shell>>

\* GasStationFetcher unmounts: the cleanup of the second effect runs.
FetcherUnmounts ==
    /\ fetcher.mounted = "yes"
    /\ fetcher' = [fetcher EXCEPT !.mounted = "gone",
                                  !.timeouts = clearTimeout(fetcher.timeouts, fetcher.own),
                                  !.own = None]
    /\ UNCHANGED <<utilVars, calls, pageVars, shell>>

---------------------------------------------------------------------------
(* The native shell: LocationManager, Coordinator, the document in the web view *)

\* Locations Core Location reports.
NativeLocations == {[lat |-> 430000, lon |-> -890000], [lat |-> 430100, lon |-> -890000],
                    [lat |-> 450000, lon |-> -890000]}

AuthorizationStatuses == {"denied", "authorizedWhenInUse", "authorizedAlways"}

\* Injections counted up to MaxInjections.
MaxInjections == 3

\* A document in which the script has not run: navigator.geolocation is the
\* web view's own. The web view starts with an empty document ("blank"); a
\* page is "loading" from its commit to didFinish and "loaded" after.
BlankDocument == [stage |-> "blank", overridden |-> FALSE, coords |-> None]

\* The script of injectLocation evaluated in a document: the first run
\* replaces getCurrentPosition and watchPosition by functions that deliver
\* the coordinates written into the script; later runs find __overridden set.
injectedScript(doc, location) ==
    IF ~doc.overridden
    THEN [doc EXCEPT !.overridden = TRUE, !.coords = Some(location)]
    ELSE doc

\* Coordinator.injectLocation(location)
injectLocation(sh, location) ==
    [sh EXCEPT !.document = injectedScript(sh.document, location),
               !.injections = IF sh.injections < MaxInjections THEN sh.injections + 1
                              ELSE MaxInjections]

\* locationManagerDidChangeAuthorization
DidChangeAuthorization ==
    /\ \E status \in AuthorizationStatuses :
         /\ status # shell.status
         /\ shell' = [shell EXCEPT
                !.status = status,
                !.updating = IF status \in {"authorizedWhenInUse", "authorizedAlways"}
                             THEN TRUE ELSE shell.updating]
    /\ UNCHANGED <<utilVars, calls, pageVars, fetcher>>

\* locationManager(_:didUpdateLocations:): Core Location delivers only after
\* startUpdatingLocation and while the app is authorized.
DidUpdateLocations ==
    /\ shell.updating
    /\ shell.status \in {"authorizedWhenInUse", "authorizedAlways"}
    /\ \E location \in NativeLocations :
         shell' = injectLocation([shell EXCEPT !.location = Some(location)], location)
    /\ UNCHANGED <<utilVars, calls, pageVars, fetcher>>

\* webView.load(request), or a reload: the web view commits a new document.
LoadPage ==
    /\ shell' = [shell EXCEPT !.document = [BlankDocument EXCEPT !.stage = "loading"],
                              !.seen = None]
    /\ UNCHANGED <<utilVars, calls, pageVars, fetcher>>

\* webView(_:didFinish:): the load of the document ends.
DidFinishNavigation ==
    /\ shell.document.stage = "loading"
    /\ LET sh == [shell EXCEPT !.document.stage = "loaded"]
       IN shell' = IF shell.location # None THEN injectLocation(sh, Val(shell.location))
                   ELSE sh
    /\ UNCHANGED <<utilVars, calls, pageVars, fetcher>>

\* The page calls getCurrentPosition or watchPosition (its scripts run from
\* the commit on): the replaced functions call success with their
\* coordinates, the web view's own do not consult the shell.
PageAsksPosition ==
    /\ shell.document.stage # "blank"
    /\ shell' = [shell EXCEPT !.seen = IF shell.document.overridden
                                       THEN Some(shell.document.coords)
                                       ELSE Some(None)]
    /\ UNCHANGED <<utilVars, calls, pageVars, fetcher>>

---------------------------------------------------------------------------
Init ==
    /\ pc = "idle"
    /\ userLocation = [lat |-> 0, lng |-> 0]
    /\ reply = None
    /\ stations = <<>>
    /\ route = None
    /\ nearest = None
    /\ raised = FALSE
    /\ stationsArg = None
    /\ fnArg = None
    /\ fnResult = None
    /\ calls = [i \in 1..MaxCalls |-> NoCall]
    /\ homeUserLocation = None
    /\ gasStations = <<>>
    /\ nearestStation = None
    /\ currentAddress = "Locating..."
    /\ isLoading = TRUE
    /\ hasInitialized = FALSE
    /\ mapMounted = FALSE
    /\ timer = None
    /\ tasks = EmptyBag
    /\ geocoding = FALSE
    /\ crashed = FALSE
    /\ served = FALSE
    /\ lastFetchFor = None
    /\ lastRoute = None
    /\ listFor = None
    /\ routeRequest = None
    /\ fetcher = [mounted |-> "no", hasInitialized |-> FALSE, initial |-> 0, updates |-> 0,
                  timeouts |-> <<>>, own |-> None, idle |-> 0, started |-> None]
    /\ shell = [status |-> "notDetermined", updating |-> FALSE, location |-> None,
                document |-> BlankDocument, seen |-> None, injections |-> 0]

Next ==
    \/ CallFetchNearbyGasStations
    \/ StationsSettle
    \/ SelectNearest
    \/ CallFetchRoute
    \/ RouteSettle
    \/ PrepareFindNearest
    \/ CallFindNearestStation
    \/ CallFormatAddress
    \/ CallFormatDistance
    \/ CallCalculateDistance

Spec == Init /\ [][Next]_vars

\* One station fetch whose reply has distinct element ids.
NextSort ==
    \/ CallFetchNearbyGasStations
    \/ SortSettle

SpecSort == Init /\ [][NextSort]_vars

\* Calls of the two fetch functions, overlapping in every way.
NextCalls ==
    \/ \E i \in 1..MaxCalls : CallStart(i)
    \/ \E i \in 1..MaxCalls : FetchResolves(i)
    \/ \E i \in 1..MaxCalls : JsonResolves(i)

SpecCalls == Init /\ [][NextCalls]_vars

\* The page with its geolocation watch, the map and the services.
NextPage ==
    \/ GeoSuccess
    \/ GeoError
    \/ GeocodeReply
    \/ MapMounts
    \/ TimerFires
    \/ \E t \in Running : StationsReply(t)
    \/ \E t \in Running : RouteReply(t)

SpecPage == Init /\ [][NextPage]_vars

\* The same, where the map component loads, timers expire and the services
\* answer every request.
SpecPageFair ==
    /\ Init
    /\ [][NextPage]_vars
    /\ WF_vars(MapMounts)
    /\ WF_vars(TimerFires)
    /\ WF_vars(GeocodeReply)
    /\ WF_vars(\E t \in Running : StationsReply(t))
    /\ WF_vars(\E t \in Running : RouteReply(t))

\* The page with the two history variables kept: which station fetch filled
\* gasStations and which route request filled nearestStation.
NextPageRecorded ==
    \/ GeoSuccess
    \/ GeoError
    \/ GeocodeReply
    \/ MapMounts
    \/ TimerFires
    \/ \E t \in Running : StationsReplyRecorded(t)
    \/ \E t \in Running : RouteReplyRecorded(t)

SpecPageRecorded == Init /\ [][NextPageRecorded]_vars

\* GasStationFetcher with its timeouts on a clock.
NextFetcher ==
    \/ FetcherMounts
    \/ LocationChanges
    \/ InitialDone
    \/ Tick
    \/ TimeoutFires
    \/ UpdateDone
    \/ FetcherUnmounts

SpecFetcher == Init /\ [][NextFetcher]_vars

\* The native shell around the page.
NextShell ==
    \/ DidChangeAuthorization
    \/ DidUpdateLocations
    \/ LoadPage
    \/ DidFinishNavigation
    \/ PageAsksPosition

SpecShell == Init /\ [][NextShell]_vars

---------------------------------------------------------------------------
(* Properties *)

StationsReturned == pc \in {"stationsDone", "nearestSelected"}

\* The point-of-interest request succeeded: a parsed payload with an
\* elements collection.
StationsSuccess ==
    /\ StationsReturned
    /\ Val(reply).kind = "json"
    /\ Val(reply).data # None
    /\ Val(Val(reply).data).elements # None

ReplyElements == Val(Val(Val(reply).data).elements)

\* a <= b on JavaScript numbers: false when either is NaN.
JsLeq(a, b) == a # NaN /\ b # NaN /\ a <= b

\* The returned stations are, in some order, one per element of the reply,
\* each related to its element by P.
OnePerElement(P(_, _)) ==
    /\ Len(stations) = Len(ReplyElements)
    /\ \E p \in Permutations(1..Len(stations)) :
          \A i \in 1..Len(stations) : P(stations[i], ReplyElements[p[i]])

\* C1: fetchNearbyGasStations never propagates an error: whatever the
\* upstream call does, the call completes without raising, and it returns
\* the empty sequence when the request is rejected, the status is not a
\* success, the body does not parse or the payload has no elements.
C1_FetchStationsFailsSoft ==
    StationsReturned =>
        /\ ~raised
        /\ ~StationsSuccess => stations = <<>>

C1_Witness ==
    /\ pc = "stationsDone"
    /\ Val(reply).kind = "json"
    /\ Val(reply).data # None
    /\ Val(Val(reply).data).elements = None
    /\ stations = <<>>
    /\ ~raised

RouteReplyFound ==
    /\ Val(reply).kind = "json"
    /\ Val(reply).data # None
    /\ Val(Val(reply).data).code = Some("Ok")
    /\ Val(Val(reply).data).routes # None
    /\ Len(Val(Val(Val(reply).data).routes)) > 0

FirstRoute == Val(Val(Val(reply).data).routes)[1]

\* C2: fetchRoute never raises, and it returns a Route only when the request
\* was answered with a success status and a parsed body whose code is
\* exactly "Ok" and whose routes collection is present and not empty; in
\* every other case it returns null.
C2_RouteAbsentOnFailure ==
    pc = "routeDone" =>
        /\ ~raised
        /\ ~RouteReplyFound => route = None

C2_Witness ==
    /\ pc = "routeDone"
    /\ Val(reply).kind = "json"
    /\ Val(reply).data # None
    /\ Val(Val(reply).data).code = Some("NoRoute")
    /\ Val(Val(reply).data).routes # None
    /\ Len(Val(Val(Val(reply).data).routes)) > 0
    /\ route = None
    /\ ~raised

\* C3: for every successful point-of-interest response the returned sequence
\* is sorted ascending by distance: each station's distance is <= the next
\* one's.
C3_SortedAscending ==
    StationsSuccess =>
        \A i \in 1..(Len(stations) - 1) :
            JsLeq(stations[i].distance, stations[i + 1].distance)

\* C4: findNearestStation applied, as GasStationFetcher applies it, to the
\* result of a successful fetchNearbyGasStations call returns a station
\* whose distance is <= the distance of every other station of the result.
C4_NearestIsClosest ==
    (pc = "nearestSelected" /\ StationsSuccess) =>
        /\ nearest # None
        /\ \A i \in 2..Len(stations) :
              JsLeq(Val(nearest).distance, stations[i].distance)

\* C5: findNearestStation returns the first element of a non-empty input and
\* null for an empty or absent input, whatever the stations' distances and
\* the userLocation argument are, and leaves its input as it was.
C5_FirstElementOrNull ==
    [][pc' = "findDone" =>
          /\ nearest' = IF stationsArg = None THEN None
                        ELSE IF Len(Val(stationsArg)) = 0 THEN None
                        ELSE Some(Val(stationsArg)[1])
          /\ stationsArg' = stationsArg]_vars

C5_Witness ==
    /\ pc = "findDone"
    /\ stationsArg # None
    /\ Len(Val(stationsArg)) = 2
    /\ Val(stationsArg)[1].distance > Val(stationsArg)[2].distance
    /\ Val(stationsArg)[2].distance # NaN
    /\ userLocation = [lat |-> 30, lng |-> 0]
    /\ nearest = Some(Val(stationsArg)[1])

\* C6: for every element of a successful response the Station's (lat, lng)
\* is the element's (center.lat, center.lon) when the element carries a
\* center and the element's own (lat, lon) otherwise, for every coordinate
\* value including 0.
C6_RepresentativeCoordinate ==
    StationsSuccess =>
        LET P(s, e) ==
                /\ s.id = e.id
                /\ s.lat = (IF e.center # None THEN Some(Val(e.center).lat) ELSE e.lat)
                /\ s.lng = (IF e.center # None THEN Some(Val(e.center).lon) ELSE e.lon)
        IN OnePerElement(P)

RouteReplyWellFormed ==
    /\ pc = "routeDone"
    /\ RouteReplyFound
    /\ FirstRoute.geometry # None

\* C7: on a routing response with code "Ok" and at least one route, fetchRoute
\* returns a Route whose steps are the steps of the first leg of the first
\* route, and a Route with no steps when that route has no legs (legs empty
\* or not present).
C7_StepsOfFirstLeg ==
    RouteReplyWellFormed =>
        /\ route # None
        /\ Val(route).steps =
              IF FirstRoute.legs = None THEN <<>>
              ELSE IF Len(Val(FirstRoute.legs)) = 0 THEN <<>>
              ELSE IF Val(FirstRoute.legs)[1].steps = None THEN <<>>
              ELSE Val(Val(FirstRoute.legs)[1].steps)

\* C8: on a successful routing response the returned path has the length and
\* order of the first route's geometry.coordinates, and its i-th entry is the
\* i-th received [lng, lat] pair with its components swapped.
C8_PathAxisSwapped ==
    (RouteReplyWellFormed /\ FirstRoute.legs # None) =>
        /\ route # None
        /\ Len(Val(route).coordinates) = Len(Val(FirstRoute.geometry).coordinates)
        /\ \A i \in 1..Len(Val(route).coordinates) :
              /\ Val(route).coordinates[i][1] = Val(FirstRoute.geometry).coordinates[i][2]
              /\ Val(route).coordinates[i][2] = Val(FirstRoute.geometry).coordinates[i][1]

C8_Witness ==
    /\ RouteReplyWellFormed
    /\ Len(Val(Val(Val(reply).data).routes)) = 2
    /\ Val(FirstRoute.geometry).coordinates = << <<-89, 43>>, <<30, 0>> >>
    /\ route # None
    /\ Val(route).coordinates = << <<43, -89>>, <<0, 30>> >>

\* C9: for every successful response fetchNearbyGasStations returns exactly
\* one Station per element: the same count, and every id as many times as
\* among the elements.
C9_OneStationPerElement ==
    StationsSuccess =>
        /\ Len(stations) = Len(ReplyElements)
        /\ \A id \in Ids :
              Cardinality({i \in 1..Len(stations) : stations[i].id = id})
                = Cardinality({i \in 1..Len(ReplyElements) : ReplyElements[i].id = id})

C9_Witness ==
    /\ StationsSuccess
    /\ Len(ReplyElements) = 2
    /\ ReplyElements[1].id = ReplyElements[2].id
    /\ ReplyElements[1].tags = None
    /\ ReplyElements[1] = ReplyElements[2]
    /\ Len(stations) = 2

\* C10 as stated: the Station's name is the element's name tag when present,
\* else its brand tag when present, else 'Gas Station'; an element without a
\* tags mapping gets 'Gas Station' and no address, and the fetch succeeds.
C10_NameFallbackWhenPresent ==
    StationsSuccess =>
        LET P(s, e) ==
                /\ s.id = e.id
                /\ s.tags = e.tags
                /\ s.name = (IF tag(e, "name") # None THEN Val(tag(e, "name"))
                             ELSE IF tag(e, "brand") # None THEN Val(tag(e, "brand"))
                             ELSE "Gas Station")
                /\ e.tags = None => (s.name = "Gas Station" /\ s.address = None)
        IN ~raised /\ OnePerElement(P)

\* C10 as amended: the Station's name is the element's name tag when present
\* and not the empty string, else its brand tag when present and not the
\* empty string, else 'Gas Station'; an element without a tags mapping gets
\* 'Gas Station' and no address, and the fetch succeeds.
C10_NameFallbackWhenNonEmpty ==
    StationsSuccess =>
        LET Usable(e, k) == tag(e, k) # None /\ Val(tag(e, k)) # ""
            P(s, e) ==
                /\ s.id = e.id
                /\ s.tags = e.tags
                /\ s.name = (IF Usable(e, "name") THEN Val(tag(e, "name"))
                             ELSE IF Usable(e, "brand") THEN Val(tag(e, "brand"))
                             ELSE "Gas Station")
                /\ e.tags = None => (s.name = "Gas Station" /\ s.address = None)
        IN ~raised /\ OnePerElement(P)

C10_Witness ==
    /\ StationsSuccess
    /\ Len(ReplyElements) = 2
    /\ \E i, j \in 1..2 :
          /\ ReplyElements[i].tags = None
          /\ tag(ReplyElements[j], "name") = None
          /\ tag(ReplyElements[j], "brand") = Some("BP")
          /\ ReplyElements[j].tags # None
    /\ \E i, j \in 1..2 : stations[i].name = "Gas Station" /\ stations[j].name = "BP"

\* C13: formatAddress returns null for missing tags and for tags without a
\* usable address key; otherwise the values of house number, street and
\* city that are there, in that order, joined by ", ", with no leading or
\* trailing separator.  As stated (a key counts when it is present):
AddressOf(t, has(_)) ==
    LET h == Val(t.housenumber)
        st == Val(t.street)
        c == Val(t.city)
    IN CASE has(t.housenumber) /\ has(t.street) /\ has(t.city) ->
                Some(h \o ", " \o st \o ", " \o c)
         [] has(t.housenumber) /\ has(t.street) /\ ~has(t.city) -> Some(h \o ", " \o st)
         [] has(t.housenumber) /\ ~has(t.street) /\ has(t.city) -> Some(h \o ", " \o c)
         [] ~has(t.housenumber) /\ has(t.street) /\ has(t.city) -> Some(st \o ", " \o c)
         [] has(t.housenumber) /\ ~has(t.street) /\ ~has(t.city) -> Some(h)
         [] ~has(t.housenumber) /\ has(t.street) /\ ~has(t.city) -> Some(st)
         [] ~has(t.housenumber) /\ ~has(t.street) /\ has(t.city) -> Some(c)
         [] OTHER -> None

KeyPresent(v) == v # None
KeyNonEmpty(v) == v # None /\ v # Some("")

C13_AddressFromPresentKeys ==
    pc = "addressDone" =>
        fnResult = IF Val(fnArg) = None THEN None
                   ELSE AddressOf(Val(Val(fnArg)), KeyPresent)

\* C13, amended: a key counts when it is present with a non-empty value.
C13_AddressFromNonEmptyKeys ==
    pc = "addressDone" =>
        fnResult = IF Val(fnArg) = None THEN None
                   ELSE AddressOf(Val(Val(fnArg)), KeyNonEmpty)

\* An address was built from a proper subset of the keys, one of the
\* others being present but empty.
C13_Witness ==
    /\ pc = "addressDone"
    /\ Val(fnArg) # None
    /\ Val(Val(fnArg)).housenumber = Some("12")
    /\ Val(Val(fnArg)).street = Some("")
    /\ Val(Val(fnArg)).city = Some("Madison")
    /\ fnResult = Some("12, Madison")

\* C14: formatDistance renders a distance below 0.1 mile as whole feet
\* (miles * 5280 rounded, then " ft") and any other distance as miles with
\* one decimal (then " mi"); 0.1 itself is rendered in miles, 0.05 is
\* "264 ft" and 2.5 is "2.5 mi".
Digits == <<"0", "1", "2", "3", "4", "5", "6", "7", "8", "9">>

RECURSIVE Decimal(_)
Decimal(n) == IF n < 10 THEN Digits[n + 1] ELSE Decimal(n \div 10) \o Digits[(n % 10) + 1]

\* The integer nearest to n / unit (halves up), by its defining inequality.
Nearest(n, unit) == CHOOSE k \in 0..(n \div unit + 1) : 2 * unit * k - unit <= 2 * n /\ 2 * n < 2 * unit * k + unit

C14_FeetBelowTenthOfMile ==
    pc = "distanceTextDone" =>
        LET miles == Val(fnArg)
            text == Val(fnResult)
        IN /\ 10 * miles < MilesUnit =>
                text = Decimal(Nearest(miles * 5280, MilesUnit)) \o " ft"
           /\ 10 * miles >= MilesUnit =>
                LET tenths == Nearest(10 * miles, MilesUnit)
                IN text = Decimal(tenths \div 10) \o "." \o Decimal(tenths % 10) \o " mi"
           /\ miles = 500 => text = "264 ft"
           /\ miles = 25000 => text = "2.5 mi"
           /\ miles = 1000 => text = "0.1 mi"

\* The threshold itself was formatted.
C14_Witness ==
    /\ pc = "distanceTextDone"
    /\ Val(fnArg) = 1000
    /\ Val(fnResult) = "0.1 mi"

\* C15: calculateDistance gives the same value from a to b as from b to a,
\* and 0 from a point to itself.
C15_DistanceSymmetric ==
    pc = "distanceDone" =>
        /\ Val(fnResult)[1] = Val(fnResult)[2]
        /\ Val(fnArg)[1] = Val(fnArg)[2] => Val(fnResult)[1] = 0

\* Two points on different latitudes and longitudes were measured, and
\* are a positive distance apart.
C15_Witness ==
    /\ pc = "distanceDone"
    /\ Val(fnArg) = <<(<<37, -90>>), (<<-45, 1>>)>>
    /\ Val(fnResult)[1] > 0

\* C12: stations with equal distance keep the relative order the upstream
\* response gave them.
PositionOf(id) == CHOOSE k \in 1..Len(stations) : stations[k].id = id

StationCallDone(i) == calls[i].fn = "fetchNearbyGasStations" /\ calls[i].stage = "done"

C11_DistanceFromCallCoordinates ==
    \A i \in 1..MaxCalls :
        StationCallDone(i) =>
            \A k \in 1..Len(Val(calls[i].result)) :
                LET st == Val(calls[i].result)[k]
                    at == Val(calls[i].args)
                IN st.distance = calculateDistance(Some(at.lat), Some(at.lng), st.lat, st.lng)

\* Two calls with different coordinates got the same elements and gave the
\* same station different distances.
C11_Witness ==
    /\ StationCallDone(1) /\ StationCallDone(2)
    /\ calls[1].args # calls[2].args
    /\ calls[1].response = calls[2].response
    /\ Len(Val(calls[1].result)) = 2
    /\ \E k, l \in 1..2 :
          /\ Val(calls[1].result)[k].id = Val(calls[2].result)[l].id
          /\ Val(calls[1].result)[k].distance # Val(calls[2].result)[l].distance

\* C16: under any interleaving of overlapping calls, the result of each
\* call of fetchNearbyGasStations and fetchRoute is the one its own
\* arguments and its own upstream response determine.
C16_CallsIndependent ==
    \A i \in 1..MaxCalls :
        calls[i].stage = "done" =>
            LET at == Val(calls[i].args)
                rep == Val(calls[i].response)
            IN IF calls[i].fn = "fetchNearbyGasStations"
               THEN \E c \in fetchNearbyGasStations(at.lat, at.lng, rep) :
                        calls[i].result = Some(c.value)
               ELSE calls[i].result = fetchRoute(at, CallEnd, rep).value

\* Two station calls that overlapped, with different coordinates and
\* different outcomes upstream, both returned.
C16_Witness ==
    /\ StationCallDone(1) /\ StationCallDone(2)
    /\ calls[1].overlapped /\ calls[2].overlapped
    /\ calls[1].args # calls[2].args
    /\ Val(calls[1].response).kind = "rejected"
    /\ Len(Val(calls[2].result)) = 2

\* The calls of fetchStations / updateNearest suspended on their route
\* request.
RouteRequests(b) == BagCardinality([t \in {x \in BagToSet(b) : x.stage = "route"} |-> b[t]])

\* C17: the orchestrator never fails on "nothing found": a station fetch
\* that returns the empty sequence issues no route request and raises no
\* error; a route fetch that returns null still publishes the nearest
\* station, its route and duration absent.
C17_NothingFoundIsNoFailure ==
    [][ /\ ~crashed'
        /\ RouteRequests(tasks') > RouteRequests(tasks) => gasStations' # <<>>
        /\ RouteRequests(tasks') < RouteRequests(tasks) =>
              /\ nearestStation' # None
              /\ \E t \in Running : t.stage = "route" /\ Val(nearestStation').station = Val(t.found)
              /\ lastRoute' = Some(None) =>
                    /\ Val(nearestStation').route = None
                    /\ Val(nearestStation').duration = None
      ]_vars

\* A refresh found a station but no route to it, and a later one found no
\* station at all.
C17_Witness ==
    /\ lastRoute = Some(None)
    /\ nearestStation # None
    /\ Val(nearestStation).route = None
    /\ gasStations = <<>>
    /\ hasInitialized
    /\ ~crashed

\* C18: if the position callbacks stop and every request is answered, then
\* eventually the result of a station fetch for the position reported last
\* is written to gasStations.
C18_LastPositionServed ==
    \/ []<><<GeoSuccess \/ GeoError>>_vars
    \/ [](homeUserLocation = None)
    \/ <>[]served

\* The user moved from one reported position to another, and the stations
\* around the second were fetched and written.
C18_Witness ==
    /\ served
    /\ hasInitialized
    /\ homeUserLocation = Some([lat |-> 450000, lng |-> -890000])
    /\ lastFetchFor = homeUserLocation
    /\ gasStations # <<>>
    /\ BagCardinality(tasks) = 0
    /\ timer = None

\* C19: after initialization a station refetch is issued only when the
\* position has moved significantly (about 500 m) from the position of the
\* previous fetch.
SignificantMove == 45

MovedSignificantly(a, b) ==
    \/ Abs(a.lat - b.lat) >= SignificantMove
    \/ Abs(a.lng - b.lng) >= SignificantMove

C19_RefetchOnlyAfterMovement ==
    [][ TimerFires =>
          /\ lastFetchFor # None
          /\ MovedSignificantly(Val(lastFetchFor), Val(timer)) ]_vars

\* C20: whenever the geolocation error callback fires, userLocation becomes
\* (43.0731, -89.4012), currentAddress becomes "Madison, WI (Default)" and
\* isLoading becomes false, so that the map is rendered.
MapRendered == ~isLoading /\ homeUserLocation # None

C20_ErrorFallsBackToDefault ==
    [][ GeoError =>
          /\ homeUserLocation' = Some([lat |-> 430731, lng |-> -894012])
          /\ currentAddress' = "Madison, WI (Default)"
          /\ isLoading' = FALSE
          /\ MapRendered' ]_vars

\* The error callback fired while the page was loading; the map came up
\* and the stations around the default location were fetched.
C20_Witness ==
    /\ homeUserLocation = Some([lat |-> 430731, lng |-> -894012])
    /\ currentAddress = "Madison, WI (Default)"
    /\ ~isLoading
    /\ mapMounted
    /\ lastFetchFor = homeUserLocation
    /\ served

\* C21: the map loads only after geolocation is ready: isLoading = false
\* implies that userLocation is present, and the Map component, its timer and
\* every station or route fetch exist only while userLocation is present.
C21_MapOnlyWithLocation ==
    /\ ~isLoading => homeUserLocation # None
    /\ mapMounted => homeUserLocation # None
    /\ (timer # None \/ tasks # EmptyBag) => (mapMounted /\ homeUserLocation # None)

\* The map is up and a fetch is running for the reported position.
C21_Witness ==
    /\ mapMounted
    /\ ~isLoading
    /\ \E t \in Running : Some(t.loc) = homeUserLocation /\ t.loc \in Positions

\* C26: whenever no refresh is in flight, nearestStation is absent or has
\* the id of the first element of gasStations; after a refresh whose station
\* fetch returned the empty sequence it is absent.
C26_NearestConsistentWithList ==
    tasks = EmptyBag =>
        \/ nearestStation = None
        \/ /\ gasStations # <<>>
           /\ Val(nearestStation).station.id = gasStations[1].id

\* C27: the initial station fetch is started at most once per mount of
\* GasStationFetcher: no second fetchStations call starts while the first
\* has not completed.
InitialRunning ==
    BagCardinality([t \in {x \in Running : x.kind = "initial"} |-> tasks[t]])

C27_InitialFetchOnce == InitialRunning <= 1

\* C28: once a success callback has set userLocation to a reported
\* position, a later error callback leaves userLocation and currentAddress
\* unchanged.
C28_DefaultOnlyWithoutPosition ==
    [][ (GeoError /\ homeUserLocation # None /\ Val(homeUserLocation) \in Positions)
            => UNCHANGED <<homeUserLocation, currentAddress>> ]_vars

\* C23: a route is only attached to the station it was computed for. A
\* route request is issued only when a station fetch returned a non-empty
\* list, with start = the location of that fetch and end = the first station
\* of that list; and the route and duration held in nearestStation are the
\* reply to the route request whose end is the station held there.
RouteIssuedFor(u) ==
    /\ gasStations' # <<>>
    /\ u.found = Some(gasStations'[1])
    /\ listFor' = Some(u.loc)

RouteHeldIsReplyForStation ==
    nearestStation # None =>
        /\ routeRequest # None
        /\ Val(routeRequest).end = Val(nearestStation).station
        /\ Val(nearestStation).route =
              IF Val(routeRequest).reply = None THEN None
              ELSE Some(Val(Val(routeRequest).reply).coordinates)
        /\ Val(nearestStation).duration =
              IF Val(routeRequest).reply = None THEN None
              ELSE Some(Val(Val(routeRequest).reply).duration)

C23_RouteAttachedToItsStation ==
    [][ /\ \A u \in BagToSet(tasks') :
             (u.stage = "route" /\ CopiesIn(u, tasks') > CopiesIn(u, tasks))
                 => RouteIssuedFor(u)
        /\ RouteHeldIsReplyForStation' ]_vars

\* nearestStation holds a route while the list on the page has since been
\* replaced by the result of a fetch for another position.
C23_Witness ==
    /\ nearestStation # None
    /\ Val(nearestStation).route # None
    /\ listFor # None
    /\ listFor # Some(Val(routeRequest).start)

\* C24: a stale route is discarded when the reference coordinate changes:
\* whenever nearestStation carries a route, that route was computed with the
\* current userLocation as its start.
C24_NoStaleRouteExposed ==
    (nearestStation # None /\ Val(nearestStation).route # None)
        => Some(Val(routeRequest).start) = homeUserLocation

\* C25: latest wins: with no timer pending and no station or route request
\* outstanding, gasStations and nearestStation hold the results of the
\* refresh issued for the current userLocation.
Quiescent == mapMounted /\ hasInitialized /\ timer = None /\ tasks = EmptyBag

C25_LatestWins ==
    Quiescent =>
        /\ listFor = homeUserLocation
        /\ gasStations # <<>> =>
              (routeRequest # None /\ Some(Val(routeRequest).start) = homeUserLocation)

\* C22: after initialization, refreshes are debounced by 2 seconds of idle
\* time: updateNearest starts only when 2 seconds have gone by since the last
\* change of userLocation; every pending timeout was set at or after that
\* change, so at most one is pending; none survives unmount.
C22_RefreshDebounced ==
    /\ fetcher.started # None => Val(fetcher.started) >= Debounce
    /\ Len(fetcher.timeouts) <= 1
    /\ \A k \in DOMAIN fetcher.timeouts : fetcher.timeouts[k] + fetcher.idle >= Debounce
    /\ fetcher.mounted = "gone" => fetcher.timeouts = <<>>

\* A refresh has started after its two seconds, and a change of userLocation
\* one second ago has set the timeout that is pending now.
C22_Witness ==
    /\ fetcher.started # None
    /\ fetcher.idle = 1
    /\ fetcher.timeouts = <<1>>

\* C29: in the native shell the page sees the most recent native location:
\* the replaced getCurrentPosition and watchPosition deliver the coordinates
\* of the latest location update, and nothing is injected before
\* authorization was granted and a location received.
C29_PageSeesLatestNativeLocation ==
    [][ /\ (PageAsksPosition /\ shell.document.overridden)
              => shell'.seen = Some(shell.location)
        /\ shell'.injections > 0 => (shell'.updating /\ shell'.location # None) ]_vars

====
